---- MODULE Spec2Model ----
(***************************************************************************)
(* Model of inventory_system.py: a module-level dictionary stock_data      *)
(* mapping item names to quantities, the functions that mutate and query   *)
(* it, and its JSON persistence.                                           *)
(*                                                                         *)
(* Python values are records [t, n, s]: t is the Python type name, n the   *)
(* numeric payload, s the characters of a str.  A bool is an instance of   *)
(* int in Python, so isinstance(True, int) holds and True behaves as 1.    *)
(* A float [t |-> "float", n |-> k] stands for the non-integral k + 0.5.   *)
(* JSON values are records of the same shape whose t is the JSON type.     *)
(***************************************************************************)
EXTENDS Integers, Sequences, FiniteSets, TLC

\* stock_data: the module-level dict, item name -> quantity
\* disk:       content of the file "inventory.json", the default path
\* last:       the most recent call: its arguments, what it raised or returned
VARIABLES stock_data, disk, last

vars == <<stock_data, disk, last>>

\* ------------------------------------------------------------------ bounds

\* Largest quantity a call or a document mentions, and the cap on a stored sum.
MaxQty == 2

\* Longest log list a caller hands to add_item.
MaxLogs == 1

\* check_low_items(threshold: int = 5)
DefaultThreshold == 5

\* ------------------------------------------------------------ Python values

PyInt(n) == [t |-> "int", n |-> n, s |-> <<>>]

PyBool(b) == [t |-> "bool", n |-> IF b THEN 1 ELSE 0, s |-> <<>>]

PyFloat(k) == [t |-> "float", n |-> k, s |-> <<>>]

PyStr(chars) == [t |-> "str", n |-> 0, s |-> chars]

PyNone == [t |-> "NoneType", n |-> 0, s |-> <<>>]

\* an argument the caller leaves out
Omitted == [t |-> "omitted", n |-> 0, s |-> <<>>]

\* a parameter with a default value
Default(arg, value) == IF arg = Omitted THEN value ELSE arg

\* isinstance(v, str)
IsInstanceStr(v) == v.t = "str"

\* isinstance(v, int): bool is a subclass of int
IsInstanceInt(v) == v.t \in {"int", "bool"}

\* ------------------------------------------------------------------ strings

Whitespace == {" "}

RECURSIVE LStrip(_)
LStrip(chars) ==
    IF chars # <<>> /\ Head(chars) \in Whitespace THEN LStrip(Tail(chars)) ELSE chars

RECURSIVE RStrip(_)
RStrip(chars) ==
    IF chars # <<>> /\ chars[Len(chars)] \in Whitespace
    THEN RStrip(SubSeq(chars, 1, Len(chars) - 1))
    ELSE chars

\* str.strip()
Strip(chars) == RStrip(LStrip(chars))

\* code point of a character
Ord(c) == CASE c = " " -> 32 [] c = "a" -> 97

\* str.__lt__: lexicographic by code point
RECURSIVE StrLess(_, _)
StrLess(x, y) ==
    IF y = <<>> THEN FALSE
    ELSE IF x = <<>> THEN TRUE
    ELSE IF Ord(Head(x)) # Ord(Head(y)) THEN Ord(Head(x)) < Ord(Head(y))
    ELSE StrLess(Tail(x), Tail(y))

\* -------------------------------------------------------------------- dicts

EmptyDict == [k \in {} |-> PyInt(0)]

\* d.get(k, 0)
DictGet(d, k) == IF k \in DOMAIN d THEN d[k] ELSE PyInt(0)

\* d[k] = v
DictSet(d, k, v) == [x \in DOMAIN d \cup {k} |-> IF x = k THEN v ELSE d[x]]

\* d.pop(k, None)
DictPop(d, k) == [x \in DOMAIN d \ {k} |-> d[x]]

\* --------------------------------------------------------------- validation

\* not (not isinstance(item, str) or not item.strip())
ItemOk(item) == IsInstanceStr(item) /\ Strip(item.s) # <<>>

\* not (not isinstance(qty, int) or qty < 0)
QtyOk(qty) == IsInstanceInt(qty) /\ qty.n >= 0

\* not (not isinstance(threshold, int) or threshold < 0)
ThresholdOk(threshold) == IsInstanceInt(threshold) /\ threshold.n >= 0

\* variant: the sign of qty is not checked
ArgsRaiseNoSign(item, qty) ==
    IF ~ItemOk(item) THEN "ValueError"
    ELSE IF ~IsInstanceInt(qty) THEN "ValueError"
    ELSE ""

\* what add_item and remove_item raise for (item, qty); "" when they do not
ArgsRaise(item, qty) ==
    IF ~ItemOk(item) THEN "ValueError"
    ELSE IF ~QtyOk(qty) THEN "ValueError"
    ELSE ""

\* ------------------------------------------------------ add / remove / query

\* variant: the entry is keyed by the trimmed name
AddItemStoreStripped(store, item, qty) ==
    DictSet(store, Strip(item.s), PyInt(DictGet(store, Strip(item.s)).n + qty.n))

\* stock_data[item] = stock_data.get(item, 0) + qty   (int + bool is an int)
AddItemStore(store, item, qty) ==
    DictSet(store, item.s, PyInt(DictGet(store, item.s).n + qty.n))

\* the log entry f"{now}: Added {qty} of {item}"; the timestamp is left out
LogEntry(item, qty) == [qty |-> qty, item |-> item.s]

\* logs.append(...) when logs is not None, after the store was updated
AddItemLogs(sink, item, qty) ==
    IF sink.given THEN Append(sink.list, LogEntry(item, qty)) ELSE sink.list

\* variant: the last unit is deleted with the entry (new_qty <= 1)
RemoveItemStoreOffByOne(store, item, qty) ==
    LET current == DictGet(store, item.s).n
        new_qty == current - qty.n
    IN  IF new_qty <= 1 THEN DictPop(store, item.s)
        ELSE DictSet(store, item.s, PyInt(new_qty))

\* variant: only a negative result deletes the entry (new_qty < 0)
RemoveItemStoreKeepsZero(store, item, qty) ==
    LET current == DictGet(store, item.s).n
        new_qty == current - qty.n
    IN  IF new_qty < 0 THEN DictPop(store, item.s)
        ELSE DictSet(store, item.s, PyInt(new_qty))

\* the body of remove_item after validation
RemoveItemStore(store, item, qty) ==
    LET current == DictGet(store, item.s).n
        new_qty == current - qty.n
    IN  IF new_qty <= 0 THEN DictPop(store, item.s)
        ELSE DictSet(store, item.s, PyInt(new_qty))

\* return stock_data.get(item, 0)
GetQtyRet(store, item) == DictGet(store, item.s)

\* variant: q <= threshold
CheckLowItemsRetInclusive(store, threshold) ==
    {i \in DOMAIN store : store[i].n <= threshold.n}

\* [i for i, q in stock_data.items() if q < threshold]: each key of the dict is
\* visited once, so the list is given as the set of its elements
CheckLowItemsRet(store, threshold) ==
    {i \in DOMAIN store : store[i].n < threshold.n}

\* sorted(stock_data)
RECURSIVE SortedKeys(_)
SortedKeys(keys) ==
    IF keys = {} THEN <<>>
    ELSE LET least == CHOOSE k \in keys : \A o \in keys \ {k} : StrLess(k, o)
         IN  <<least>> \o SortedKeys(keys \ {least})

\* the lines print_data prints
PrintDataOut(store) ==
    LET keys == SortedKeys(DOMAIN store)
    IN  <<[item |-> <<>>, qty |-> PyNone, text |-> "Items Report"]>> \o
        [i \in 1..Len(keys) |-> [item |-> keys[i], qty |-> store[keys[i]], text |-> "->"]]

\* --------------------------------------------------------------------- JSON

JInt(n) == [t |-> "integer", n |-> n, s |-> <<>>]

JReal(k) == [t |-> "real", n |-> k, s |-> <<>>]

JTrue == [t |-> "true", n |-> 0, s |-> <<>>]

JFalse == [t |-> "false", n |-> 0, s |-> <<>>]

JString(chars) == [t |-> "string", n |-> 0, s |-> chars]

JNull == [t |-> "null", n |-> 0, s |-> <<>>]

\* what a file holds: nothing (no such file), text that is no JSON, or a JSON
\* document whose top level is an array, a scalar or an object with members
FileMissing == [kind |-> "missing", members |-> <<>>]

FileGarbage == [kind |-> "garbage", members |-> <<>>]

FileArray == [kind |-> "array", members |-> <<>>]

FileScalar == [kind |-> "scalar", members |-> <<>>]

FileObject(members) == [kind |-> "object", members |-> members]

\* json.load's conversion of a member value
FromJson(j) ==
    CASE j.t = "integer" -> PyInt(j.n)
      [] j.t = "real"    -> PyFloat(j.n)
      [] j.t = "true"    -> PyBool(TRUE)
      [] j.t = "false"   -> PyBool(FALSE)
      [] j.t = "string"  -> PyStr(j.s)
      [] j.t = "null"    -> PyNone

\* json.dump's conversion of a dict value (bool is tested before int)
ToJson(v) ==
    CASE v.t = "bool" /\ v.n = 1 -> JTrue
      [] v.t = "bool" /\ v.n = 0 -> JFalse
      [] v.t = "int"             -> JInt(v.n)
      [] v.t = "float"           -> JReal(v.n)
      [] v.t = "str"             -> JString(v.s)
      [] v.t = "NoneType"        -> JNull

\* json.dump(stock_data, f, ensure_ascii=False, indent=2)
JsonDump(store) == FileObject([k \in DOMAIN store |-> ToJson(store[k])])

\* data = json.load(f) for a document whose top level is an object
JsonLoad(content) == [k \in DOMAIN content.members |-> FromJson(content.members[k])]

\* what load_data raises for a file content; "" when it does not
LoadDataRaises(content) ==
    CASE content.kind = "missing" -> "OSError"
      [] content.kind = "garbage" -> "JSONDecodeError"
      [] content.kind = "array"   -> "ValueError"
      [] content.kind = "scalar"  -> "ValueError"
      [] content.kind = "object"  -> ""

\* variant: value > 0
LoadFilterPositive(data) ==
    LET kept == {key \in DOMAIN data :
                    /\ IsInstanceStr(PyStr(key))
                    /\ IsInstanceInt(data[key])
                    /\ data[key].n > 0}
    IN  [key \in kept |-> data[key]]

\* the loop building new_data: a JSON object's keys are always str
LoadFilter(data) ==
    LET kept == {key \in DOMAIN data :
                    /\ IsInstanceStr(PyStr(key))
                    /\ IsInstanceInt(data[key])
                    /\ data[key].n >= 0}
    IN  [key \in kept |-> data[key]]

\* variant: the store is cleared before the document is checked to be an object
LoadDataStoreClearFirst(store, content) ==
    IF content.kind \in {"missing", "garbage"} THEN store
    ELSE IF content.kind # "object" THEN EmptyDict
    ELSE LoadFilter(JsonLoad(content))

\* stock_data after load_data: replaced only once the document was read and
\* found to be an object
LoadDataStore(store, content) ==
    IF LoadDataRaises(content) # "" THEN store
    ELSE LoadFilter(JsonLoad(content))

\* the file after save_data: open(file, "w") raises OSError when the path cannot
\* be written, and the file is then left as it was
SaveDataDisk(store, file, writable) ==
    IF writable THEN JsonDump(store) ELSE file

\* -------------------------------------------------------------------- calls

NoSink == [given |-> FALSE, list |-> <<>>]

Sink(list) == [given |-> TRUE, list |-> list]

NoCall ==
    [op |-> "none", item |-> PyNone, qty |-> PyNone, sink |-> NoSink,
     logs |-> <<>>, doc |-> FileMissing, raised |-> "", had |-> FALSE,
     dflt |-> FALSE,
     ret |-> PyNone, low |-> {}, out |-> <<>>]

Init ==
    /\ stock_data = EmptyDict
    /\ disk = FileMissing
    /\ last = NoCall

\* add_item(item, qty=0, logs=None)
AddItem(item, arg, sink) ==
    LET qty == Default(arg, PyInt(0))
        err == ArgsRaise(item, qty)
    IN  /\ err = "" => DictGet(stock_data, item.s).n + qty.n <= MaxQty
        /\ stock_data' = IF err = "" THEN AddItemStore(stock_data, item, qty)
                         ELSE stock_data
        /\ last' = [NoCall EXCEPT !.op = "add_item", !.item = item, !.qty = qty,
                       !.sink = sink, !.raised = err, !.dflt = (arg = Omitted),
                       !.logs = IF err = "" THEN AddItemLogs(sink, item, qty)
                                ELSE sink.list,
                       !.had = (err = "" /\ item.s \in DOMAIN stock_data)]
        /\ UNCHANGED disk

RemoveItem(item, qty) ==
    LET err == ArgsRaise(item, qty)
    IN  /\ stock_data' = IF err = "" THEN RemoveItemStore(stock_data, item, qty)
                         ELSE stock_data
        /\ last' = [NoCall EXCEPT !.op = "remove_item", !.item = item, !.qty = qty,
                       !.raised = err,
                       !.had = (err = "" /\ item.s \in DOMAIN stock_data)]
        /\ UNCHANGED disk

GetQty(item) ==
    /\ last' = [NoCall EXCEPT !.op = "get_qty", !.item = item,
                   !.raised = IF ItemOk(item) THEN "" ELSE "ValueError",
                   !.ret = IF ItemOk(item) THEN GetQtyRet(stock_data, item)
                           ELSE PyNone]
    /\ UNCHANGED <<stock_data, disk>>

\* check_low_items(threshold=5)
CheckLowItems(arg) ==
    LET threshold == Default(arg, PyInt(DefaultThreshold))
    IN
    /\ last' = [NoCall EXCEPT !.op = "check_low_items", !.qty = threshold,
                   !.dflt = (arg = Omitted),
                   !.raised = IF ThresholdOk(threshold) THEN "" ELSE "ValueError",
                   !.low = IF ThresholdOk(threshold)
                           THEN CheckLowItemsRet(stock_data, threshold)
                           ELSE {}]
    /\ UNCHANGED <<stock_data, disk>>

PrintData ==
    /\ last' = [NoCall EXCEPT !.op = "print_data", !.out = PrintDataOut(stock_data)]
    /\ UNCHANGED <<stock_data, disk>>

\* load_data(file): content is what the file at that path holds
LoadData(content) ==
    /\ stock_data' = LoadDataStore(stock_data, content)
    /\ last' = [NoCall EXCEPT !.op = "load_data", !.doc = content,
                   !.raised = LoadDataRaises(content)]
    /\ UNCHANGED disk

\* save_data() to the default path
SaveData(writable) ==
    /\ disk' = SaveDataDisk(stock_data, disk, writable)
    /\ last' = [NoCall EXCEPT !.op = "save_data",
                   !.raised = IF writable THEN "" ELSE "OSError"]
    /\ UNCHANGED stock_data

\* ------------------------------------------------------------------- inputs

Str(chars) == PyStr(chars)

\* item arguments: not a str, empty, blank, and names (one with a leading blank)
ItemInputs ==
    {PyNone, Str(<<>>), Str(<<" ">>), Str(<<"a">>), Str(<<" ", "a">>)}

\* qty and threshold arguments: negative, zero, positive, bool, float, str, None
QtyInputs ==
    {PyInt(n) : n \in -1..MaxQty} \cup {PyBool(TRUE), PyFloat(1), Str(<<"a">>), PyNone}

\* the lists a caller passes as logs: earlier entries, at most MaxLogs of them
OldEntry == LogEntry(Str(<<"a">>), PyInt(1))

SinkInputs ==
    {NoSink} \cup {Sink([i \in 1..n |-> OldEntry]) : n \in 0..MaxLogs}

\* member values of the documents read
JsonInputs ==
    {JInt(-1), JInt(0), JInt(MaxQty), JTrue, JReal(1), JString(<<"a">>), JNull}

DocKeys == {<<" ">>, <<"a">>}

Documents(keys, values) ==
    UNION {{FileObject(m) : m \in [ks -> values]} : ks \in SUBSET keys}

\* files other than the default path, which the program never writes
OtherFiles ==
    {FileGarbage, FileArray, FileScalar} \cup Documents(DocKeys, JsonInputs)

\* -------------------------------------------------------------------- specs

\* the store under every kind of argument and document; nothing is saved
Next ==
    \/ \E item \in ItemInputs, qty \in QtyInputs \cup {Omitted}, sink \in SinkInputs :
          AddItem(item, qty, sink)
    \/ \E item \in ItemInputs, qty \in QtyInputs : RemoveItem(item, qty)
    \/ \E item \in ItemInputs : GetQty(item)
    \/ \E threshold \in QtyInputs \cup {Omitted} :
          CheckLowItems(threshold)
    \/ PrintData
    \/ \E content \in OtherFiles \cup {disk} : LoadData(content)

Spec == Init /\ [][Next]_vars

\* persistence: valid calls, saving to and loading from the default path
NameInputs == {Str(<<"a">>), Str(<<" ", "a">>)}

CountInputs == {PyInt(n) : n \in 0..MaxQty}

SavedFiles == {FileObject([k \in {<<"a">>} |-> JTrue])}

NextPersist ==
    \/ \E item \in NameInputs, qty \in CountInputs, sink \in SinkInputs :
          AddItem(item, qty, sink)
    \/ \E item \in NameInputs, qty \in CountInputs : RemoveItem(item, qty)
    \/ \E item \in NameInputs : GetQty(item)
    \/ \E threshold \in CountInputs \cup {Omitted} :
          CheckLowItems(threshold)
    \/ PrintData
    \/ \E content \in SavedFiles \cup {disk} : LoadData(content)
    \/ \E writable \in BOOLEAN : SaveData(writable)

SpecPersist == Init /\ [][NextPersist]_vars

\* ------------------------------------------------------------------- claims

Raised == last.raised # ""

\* a valid item name as the specification words it: a string with a character
\* that is not whitespace
IsName(v) == v.t = "str" /\ \E i \in 1..Len(v.s) : v.s[i] \notin Whitespace

\* a qty or threshold that is no integer, or a negative one
IsBadCount(v) == v.t \in {"float", "str", "NoneType"} \/ (v.t = "int" /\ v.n < 0)

\* a non-negative integer
IsCount(v) == v.t = "int" /\ v.n >= 0

\* C1: every key present in the store has a strictly positive quantity.
C1_PresentMeansPositive ==
    \A k \in DOMAIN stock_data : stock_data[k].n > 0

\* a call of add, remove, getQuantity or listLowStock with an invalid argument
InvalidCall(c) ==
    \/ c.op \in {"add_item", "remove_item"} /\ (~IsName(c.item) \/ IsBadCount(c.qty))
    \/ c.op = "get_qty" /\ ~IsName(c.item)
    \/ c.op = "check_low_items" /\ IsBadCount(c.qty)

C3_AddThenRemove ==
    [][(/\ last.op = "add_item"
        /\ last.raised = ""
        /\ ~last.had
        /\ IsName(last.item)
        /\ IsCount(last.qty)
        /\ last'.op = "remove_item"
        /\ last'.item = last.item
        /\ IsCount(last'.qty)
        /\ last'.qty.n <= last.qty.n)
       => /\ last'.raised = ""
          /\ GetQtyRet(stock_data', last.item) = PyInt(last.qty.n - last'.qty.n)]_vars

C3_Witness ==
    /\ last.op = "remove_item"
    /\ last.raised = ""
    /\ last.had
    /\ last.qty = PyInt(1)
    /\ last.item.s \in DOMAIN stock_data
    /\ stock_data[last.item.s] = PyInt(MaxQty - 1)

\* C4: remove(item, qty) with qty >= current(item) does not raise and leaves
\* the item absent with getQuantity(item) = 0; when the item was absent the
\* store is unchanged.
C4_RemoveAllDeletes ==
    [][(/\ last'.op = "remove_item"
        /\ IsName(last'.item)
        /\ IsCount(last'.qty)
        /\ last'.qty.n >= DictGet(stock_data, last'.item.s).n)
       => /\ last'.raised = ""
          /\ last'.item.s \notin DOMAIN stock_data'
          /\ GetQtyRet(stock_data', last'.item) = PyInt(0)
          /\ (last'.item.s \notin DOMAIN stock_data => stock_data' = stock_data)]_vars

C4_Witness ==
    /\ last.op = "remove_item"
    /\ last.raised = ""
    /\ last.had
    /\ last.qty.n >= 1
    /\ last.item.s \notin DOMAIN stock_data
    /\ stock_data # EmptyDict

\* the entries of a document whose value is a non-negative integer
IntegerMembers(content) ==
    LET kept == {k \in DOMAIN content.members :
                    content.members[k].t = "integer" /\ content.members[k].n >= 0}
    IN  [k \in kept |-> PyInt(content.members[k].n)]

\* C5: after a successful load the store is exactly the document's entries whose
\* value is a non-negative integer; booleans, fractions, strings and null are dropped.
C5_LoadKeepsIntegersOnly ==
    (last.op = "load_data" /\ ~Raised) => stock_data = IntegerMembers(last.doc)

\* C6: a load that fails (unreadable path, invalid JSON, top level not an object)
\* raises and leaves the store as it was.
C6_FailedLoadKeepsStore ==
    [][(last'.op = "load_data" /\ last'.doc.kind # "object")
       => /\ last'.raised =
                 (CASE last'.doc.kind = "missing" -> "OSError"
                    [] last'.doc.kind = "garbage" -> "JSONDecodeError"
                    [] OTHER -> "ValueError")
          /\ stock_data' = stock_data]_vars

C6_Witness ==
    /\ last.op = "load_data"
    /\ last.doc.kind = "array"
    /\ last.raised = "ValueError"
    /\ stock_data # EmptyDict

\* the document holds exactly the mapping: the same keys, each with its quantity
HoldsMapping(content, store) ==
    /\ content.kind = "object"
    /\ DOMAIN content.members = DOMAIN store
    /\ \A k \in DOMAIN store :
          IF store[k].t = "bool"
          THEN content.members[k].t = (IF store[k].n = 1 THEN "true" ELSE "false")
          ELSE content.members[k].t = "integer" /\ content.members[k].n = store[k].n

\* C7: a successful save writes exactly the store's mapping, and a load of that
\* file right after it leaves the store equal to what was saved.
C7_SaveLoadRoundTrip ==
    [][/\ (last'.op = "save_data" /\ last'.raised = "")
             => HoldsMapping(disk', stock_data')
       /\ (/\ last.op = "save_data"
           /\ last.raised = ""
           /\ last'.op = "load_data"
           /\ last'.doc = disk)
             => (last'.raised = "" /\ stock_data' = stock_data)]_vars

C7_Witness ==
    /\ last.op = "load_data"
    /\ last.raised = ""
    /\ last.doc = disk
    /\ HoldsMapping(disk, stock_data)
    /\ Cardinality(DOMAIN stock_data) = 2
    /\ \E k \in DOMAIN stock_data : stock_data[k].n = 0

\* C8: listLowStock(threshold) returns exactly the items present whose quantity
\* is below the threshold, none for threshold 0, and threshold 5 when called
\* without an argument.
C8_LowStockExact ==
    (last.op = "check_low_items" /\ IsCount(last.qty))
    => /\ last.raised = ""
       /\ \A k \in DOMAIN stock_data \cup last.low :
             k \in last.low <=> (k \in DOMAIN stock_data /\ stock_data[k].n < last.qty.n)
       /\ (last.qty.n = 0 => last.low = {})
       /\ (last.dflt => last.qty.n = 5)

C8_Witness ==
    /\ last.op = "check_low_items"
    /\ last.raised = ""
    /\ last.low # {}
    /\ DOMAIN stock_data \ last.low # {}

\* C9: every key of the store is a valid item name and every quantity an
\* integer >= 0 (an instance of int), so getQuantity raises for no key present.
C9_KeysAreNames ==
    \A k \in DOMAIN stock_data :
        /\ IsName(PyStr(k))
        /\ IsInstanceInt(stock_data[k])
        /\ stock_data[k].n >= 0
        /\ ItemOk(PyStr(k))

\* the entries other than key k are the same in both stores
SameElsewhere(before, after, k) ==
    \A o \in (DOMAIN before \cup DOMAIN after) \ {k} :
        /\ o \in DOMAIN before
        /\ o \in DOMAIN after
        /\ before[o] = after[o]

\* C10: a successful add or remove changes at most the entry of its exact key;
\* getQuantity, listLowStock, report and save leave the mapping unchanged; only
\* a successful add with a log list appends to it, and exactly one entry.
C10_Frame ==
    [][/\ (last'.op \in {"add_item", "remove_item"} /\ last'.raised = "")
             => SameElsewhere(stock_data, stock_data', last'.item.s)
       /\ (last'.op \in {"get_qty", "check_low_items", "print_data", "save_data"})
             => stock_data' = stock_data
       /\ (last'.op = "add_item" /\ last'.raised = "" /\ last'.sink.given)
             => /\ Len(last'.logs) = Len(last'.sink.list) + 1
                /\ SubSeq(last'.logs, 1, Len(last'.sink.list)) = last'.sink.list
                /\ last'.logs[Len(last'.logs)].item = last'.item.s
                /\ last'.logs[Len(last'.logs)].qty = last'.qty
       /\ ~(last'.op = "add_item" /\ last'.raised = "" /\ last'.sink.given)
             => last'.logs = last'.sink.list]_vars

C10_Witness ==
    /\ last.op = "add_item"
    /\ last.raised = ""
    /\ last.sink.given
    /\ Len(last.logs) = Len(last.sink.list) + 1
    /\ last.item.s = <<" ", "a">>
    /\ <<"a">> \in DOMAIN stock_data
    /\ stock_data[<<"a">>].n # stock_data[<<" ", "a">>].n

====
